---- MODULE Spec2Model ----
(***************************************************************************)
(* Model of the broker of src/main.rs: the registry (clients, topics), the *)
(* task tables (tasks, tasks_to_retry) and the event loop of main().  One  *)
(* step of the model is one iteration of the loop that handles a complete  *)
(* logical message (the frames of a message are delivered together), or a  *)
(* second of wall-clock time passing.                                      *)
(***************************************************************************)
EXTENDS Integers, Sequences, FiniteSets, TLC

\* ------------------------------------------------------------------ bounds
MaxSubs == 2          \* longest subscription list of one client row
MaxTasks == 2         \* tasks alive at once (in flight + parked)
MaxRetry == 2         \* largest retry counter explored
MaxWorkersRR == 3     \* workers of the topic of a round-robin run
MaxPicks == 7         \* dispatches of a round-robin run

\* timeout_as_secs (TASK_TIMEOUT), scaled down
timeout_as_secs == 1

\* ------------------------------------------------------------- value sets
WorkerPrefixed == {"worker1", "worker2"}
Identities == WorkerPrefixed \cup {"c1"}
TopicNames == {"T", "R"}
\* who sends what: worker1 registers (on T or R) and requests, worker2 only
\* registers (on T), c1 only requests; requests are addressed to T and name
\* R as their response-topic
Registrants == WorkerPrefixed
RegisterTopics(identity) == IF identity = "worker1" THEN {"T", "R"} ELSE {"T"}
Requesters == {"c1", "worker1"}
PingSenders == {"worker1", "c1"}
RequestTopics == {"T"}
ResponseTopics == {"R"}
Payloads == {"P"}
PING == "@@PING"
REGISTER == "@@REGISTER"
PONG == "@@PONG"
TaskIds == 1..MaxTasks

\* Option<String>: None is the empty sequence, Some(x) the sequence <<x>>
None == <<>>
Some(x) == <<x>>

\* str::starts_with("worker") on the identities of the model
starts_with_worker(id) == id \in WorkerPrefixed

\* ------------------------------------------------------------ Vec helpers
Range(s) == {s[i] : i \in 1..Len(s)}

\* Iterator::position: 1-based index of the first x in s, 0 for None
Position(s, x) ==
  IF \E i \in 1..Len(s) : s[i] = x
  THEN CHOOSE i \in 1..Len(s) : s[i] = x /\ \A j \in 1..(i - 1) : s[j] # x
  ELSE 0

\* Vec::remove(i - 1)
RemoveAt(s, i) == SubSeq(s, 1, i - 1) \o SubSeq(s, i + 1, Len(s))

Count(s, x) == Cardinality({i \in 1..Len(s) : s[i] = x})

Max(x, y) == IF x >= y THEN x ELSE y

\* HashMap::remove
MapRemove(m, k) == [x \in (DOMAIN m) \ {k} |-> m[x]]

\* HashMap insert / overwrite
MapPut(m, k, v) == [x \in (DOMAIN m) \cup {k} |-> IF x = k THEN v ELSE m[x]]

\* ------------------------------------------------------------ constructors
NewClient(name, is_worker) ==
  [name |-> name, is_worker |-> is_worker, topics |-> <<>>]

NewTopic(name) ==
  [name |-> name, workers |-> <<>>, next_worker_index |-> 0, clients |-> <<>>]

\* id is a label of the model (the code's tasks carry none); elapsed is
\* date.elapsed().as_secs(), saturated at timeout_as_secs
NewTask(id, worker_topic, rt, pl) ==
  [id |-> id, worker_topic |-> worker_topic, worker_name |-> None,
   response_topic |-> rt, retry |-> 0, payload |-> pl, elapsed |-> 0,
   sent |-> FALSE]

\* ------------------------------------------------------------------ state
VARIABLES
  clients,          \* Broker.clients: identity -> Client
  topics,           \* Broker.topics: name -> Topic
  tasks,            \* Broker.tasks: the in-flight table
  tasks_to_retry,   \* Broker.tasks_to_retry: the retry queue
  response_topic,   \* main's local, kept from one message to the next
  payload,          \* main's local, kept from one message to the next
  panicked,         \* the process has aborted
  msg,              \* the message handled by the last iteration
  out,              \* the datagrams the last iteration handed to the socket
  trace,            \* dispatcher events of the last iteration
  assigned,         \* task id -> workers the task was successfully sent to
  longest,          \* topic name -> longest worker list its row has had
  dropped,          \* topics whose row the sweeper removed, not subscribed since
  rr                \* round-robin run: the cursor it began at, the workers picked

vars == <<clients, topics, tasks, tasks_to_retry, response_topic, payload,
          panicked, msg, out, trace, assigned, longest, dropped, rr>>

\* The broker while one iteration runs: the tables plus what the iteration
\* has emitted so far.
BrokerOf(c, t, ts, tr, asg, lg, dr) ==
  [clients |-> c, topics |-> t, tasks |-> ts, tasks_to_retry |-> tr,
   out |-> <<>>, trace |-> <<>>, assigned |-> asg, longest |-> lg,
   dropped |-> dr, overflow_checks |-> FALSE, panicked |-> FALSE]

\* socket.send(identity) . send("") . send(payload): one 3-frame datagram
\* handed to the socket
Datagram(to, body) == [to |-> to, body |-> body]

Emit(b, to, body) == [b EXCEPT !.out = Append(@, Datagram(to, body))]

Panic(b) == [b EXCEPT !.panicked = TRUE]

\* an event of the dispatcher or the sweeper, kept for the last iteration
Event(ev, id, name, listed, ok) ==
  [ev |-> ev, id |-> id, name |-> name, listed |-> listed, ok |-> ok]

Log(b, e) == [b EXCEPT !.trace = Append(@, e)]

\* u8 += 1 where it does not overflow, and in a build without overflow
\* checks (the release profile), where it wraps
U8Inc(x) == (x + 1) % 256

\* u8 += 1 panics: the counter is at u8::MAX and the build has overflow
\* checks (the debug profile)
U8Overflows(b, x) == x = 255 /\ b.overflow_checks

\* ---------------------------------------------------------------- registry
\* get_next_worker_name that wraps the cursor to 0 instead of 1
get_next_worker_name_wrapping_to_0(b, topic_name) ==
  IF topic_name \notin DOMAIN b.topics
  THEN [b |-> b, name |-> None]
  ELSE LET topic == b.topics[topic_name] IN
       IF topic.next_worker_index < Len(topic.workers)
       THEN [b |-> [b EXCEPT !.topics[topic_name].next_worker_index = @ + 1],
             name |-> Some(topic.workers[topic.next_worker_index + 1])]
       ELSE [b |-> [b EXCEPT !.topics[topic_name].next_worker_index = 0],
             name |-> IF Len(topic.workers) > 0
                      THEN Some(topic.workers[1]) ELSE None]

\* get_next_worker_name that moves the cursor forward also when it is past
\* the end of the list
get_next_worker_name_always_advancing(b, topic_name) ==
  IF topic_name \notin DOMAIN b.topics
  THEN [b |-> b, name |-> None]
  ELSE LET topic == b.topics[topic_name] IN
       IF topic.next_worker_index < Len(topic.workers)
       THEN [b |-> [b EXCEPT !.topics[topic_name].next_worker_index = @ + 1],
             name |-> Some(topic.workers[topic.next_worker_index + 1])]
       ELSE [b |-> [b EXCEPT !.topics[topic_name].next_worker_index = @ + 1],
             name |-> IF Len(topic.workers) > 0
                      THEN Some(topic.workers[1]) ELSE None]

\* returns the broker with the cursor moved and the Option<String> selected
get_next_worker_name(b, topic_name) ==
  IF topic_name \notin DOMAIN b.topics
  THEN [b |-> b, name |-> None]
  ELSE LET topic == b.topics[topic_name] IN
       IF topic.next_worker_index < Len(topic.workers)
       THEN [b |-> [b EXCEPT !.topics[topic_name].next_worker_index = @ + 1],
             name |-> Some(topic.workers[topic.next_worker_index + 1])]
       ELSE [b |-> [b EXCEPT !.topics[topic_name].next_worker_index = 1],
             name |-> IF Len(topic.workers) > 0
                      THEN Some(topic.workers[1]) ELSE None]

add_client(b, is_worker, identity, rt) ==
  LET client == IF identity \in DOMAIN b.clients
                THEN b.clients[identity]
                ELSE NewClient(identity, is_worker)
      topic == IF rt \in DOMAIN b.topics THEN b.topics[rt] ELSE NewTopic(rt)
      pushed == IF is_worker
                THEN [topic EXCEPT !.workers = Append(@, identity)]
                ELSE [topic EXCEPT !.clients = Append(@, identity)]
  IN [b EXCEPT
        !.clients = MapPut(@, identity, [client EXCEPT !.topics = Append(@, rt)]),
        !.topics = MapPut(@, rt, pushed),
        !.longest[rt] = Max(IF rt \in DOMAIN b.topics THEN @ ELSE 0,
                            Len(pushed.workers)),
        !.dropped = @ \ {rt}]

\* the for_each of remove_worker_from_topics, from the i-th subscription on
RECURSIVE remove_worker_from_topics_at(_, _, _)
remove_worker_from_topics_at(b, worker, i) ==
  IF b.panicked \/ i > Len(worker.topics) THEN b
  ELSE LET t == worker.topics[i] IN
       IF t \notin DOMAIN b.topics
       THEN remove_worker_from_topics_at(b, worker, i + 1)
       ELSE LET position == Position(b.topics[t].workers, worker.name) IN
            IF position = 0
            THEN Panic(b)      \* position.unwrap() on None
            ELSE remove_worker_from_topics_at(
                   [b EXCEPT !.topics[t].workers = RemoveAt(@, position)],
                   worker, i + 1)

remove_worker_from_topics(b, worker) == remove_worker_from_topics_at(b, worker, 1)

remove_worker(b, worker_name) ==
  IF worker_name \notin DOMAIN b.clients
  THEN Panic(b)                \* self.clients[worker_name]: no such key
  ELSE LET b1 == remove_worker_from_topics(b, b.clients[worker_name]) IN
       IF b1.panicked THEN b1
       ELSE [b1 EXCEPT !.clients = MapRemove(@, worker_name)]

\* -------------------------------------------------------------- dispatcher
\* send_task that leaves the worker of the previous attempt on a task for
\* which no worker is found
send_task_keeping_worker_name(b, task, down) ==
  LET t1 == [task EXCEPT !.elapsed = 0, !.retry = U8Inc(@)]
      sel == get_next_worker_name(b, t1.worker_topic)
  IN IF sel.name = None
     THEN [b |-> sel.b, task |-> t1, name |-> None]
     ELSE LET t2 == [t1 EXCEPT !.worker_name = sel.name]
              worker_name == sel.name[1]
              ok == worker_name \notin down
              listed == /\ t2.worker_topic \in DOMAIN b.topics
                        /\ worker_name \in Range(b.topics[t2.worker_topic].workers)
              b1 == Log(Emit(sel.b, worker_name, t2.payload),
                        Event("select", t2.id, worker_name, listed, ok))
              b2 == IF ok
                    THEN [b1 EXCEPT !.assigned[t2.id] = Append(@, worker_name)]
                    ELSE remove_worker(b1, worker_name)
          IN [b |-> b2, task |-> [t2 EXCEPT !.sent = ok],
              name |-> Some(worker_name)]

\* returns the broker, the stamped task and the Option<String> result;
\* a send fails exactly for the identities in down
send_task(b, task, down) ==
  LET t1 == [task EXCEPT !.elapsed = 0, !.retry = U8Inc(@)]
      sel == get_next_worker_name(b, t1.worker_topic)
      t2 == [t1 EXCEPT !.worker_name = sel.name]
  IN IF U8Overflows(b, task.retry)
     THEN [b |-> Panic(b), task |-> task, name |-> None]
     ELSE IF sel.name = None
     THEN [b |-> sel.b, task |-> t2, name |-> None]
     ELSE LET worker_name == sel.name[1]
              ok == worker_name \notin down
              listed == /\ t2.worker_topic \in DOMAIN b.topics
                        /\ worker_name \in Range(b.topics[t2.worker_topic].workers)
              b1 == Log(Emit(sel.b, worker_name, t2.payload),
                        Event("select", t2.id, worker_name, listed, ok))
              b2 == IF ok
                    THEN [b1 EXCEPT !.assigned[t2.id] = Append(@, worker_name)]
                    ELSE remove_worker(b1, worker_name)
          IN [b |-> b2, task |-> [t2 EXCEPT !.sent = ok],
              name |-> Some(worker_name)]

\* the loop that also parks the task it has just sent
RECURSIVE send_task_and_retry_loop_parking_sent(_, _, _)
send_task_and_retry_loop_parking_sent(b, task, down) ==
  IF b.panicked THEN b
  ELSE LET r == send_task(b, task, down) IN
       IF r.b.panicked THEN r.b
       ELSE IF r.name # None
       THEN IF r.task.sent
            THEN [r.b EXCEPT !.tasks = Append(@, r.task),
                             !.tasks_to_retry = Append(@, r.task)]
            ELSE send_task_and_retry_loop_parking_sent(r.b, r.task, down)
       ELSE [r.b EXCEPT !.tasks_to_retry = Append(@, r.task)]

\* the loop that gives up after the first failed send
send_task_and_retry_loop_giving_up(b, task, down) ==
  IF b.panicked THEN b
  ELSE LET r == send_task(b, task, down) IN
       IF r.b.panicked THEN r.b
       ELSE IF r.name # None /\ r.task.sent
       THEN [r.b EXCEPT !.tasks = Append(@, r.task)]
       ELSE [r.b EXCEPT !.tasks_to_retry = Append(@, r.task)]

\* the loop of send_task_and_retry
RECURSIVE send_task_and_retry_loop(_, _, _)
send_task_and_retry_loop(b, task, down) ==
  IF b.panicked THEN b
  ELSE LET r == send_task(b, task, down) IN
       IF r.b.panicked THEN r.b
       ELSE IF r.name # None
       THEN IF r.task.sent
            THEN [r.b EXCEPT !.tasks = Append(@, r.task)]
            ELSE send_task_and_retry_loop(r.b, r.task, down)
       ELSE [r.b EXCEPT !.tasks_to_retry = Append(@, r.task)]

send_task_and_retry(b, task, down) ==
  send_task_and_retry_loop(Log(b, Event("dispatch", task.id, "", FALSE, FALSE)), task, down)

\* the for loop of retry_tasks over the snapshot, from its i-th task on
RECURSIVE retry_tasks_at(_, _, _, _)
retry_tasks_at(b, snapshot, i, down) ==
  IF b.panicked \/ i > Len(snapshot) THEN b
  ELSE retry_tasks_at(send_task_and_retry(b, snapshot[i], down), snapshot, i + 1, down)

retry_tasks(b, down) ==
  retry_tasks_at([b EXCEPT !.tasks_to_retry = <<>>], b.tasks_to_retry, 1, down)

\* --------------------------------------------------------------- responder
\* send_response_at that sends to an identity once, whatever the number of
\* entries it has in the client list
RECURSIVE send_response_at_deduplicating(_, _, _, _)
send_response_at_deduplicating(b, topic, pl, i) ==
  IF b.panicked \/ i > Len(topic.clients) THEN b
  ELSE LET name == topic.clients[i]
           b1 == IF name \in Range(SubSeq(topic.clients, 1, i - 1))
                 THEN b ELSE Emit(b, name, pl)
       IN IF name \notin DOMAIN b1.clients
          THEN send_response_at_deduplicating(b1, topic, pl, i + 1)
          ELSE LET position == Position(b1.clients[name].topics, topic.name) IN
               IF position = 0
               THEN Panic(b1)
               ELSE LET left == RemoveAt(b1.clients[name].topics, position)
                        b2 == IF left = <<>>
                              THEN [b1 EXCEPT !.clients = MapRemove(@, name)]
                              ELSE [b1 EXCEPT !.clients[name].topics = left]
                    IN send_response_at_deduplicating(b2, topic, pl, i + 1)

\* the for_each of send_response over the snapshot of the topic, from its
\* i-th client on
RECURSIVE send_response_at(_, _, _, _)
send_response_at(b, topic, pl, i) ==
  IF b.panicked \/ i > Len(topic.clients) THEN b
  ELSE LET name == topic.clients[i]
           b1 == Emit(b, name, pl)      \* the result of the send is dropped
       IN IF name \notin DOMAIN b1.clients
          THEN send_response_at(b1, topic, pl, i + 1)
          ELSE LET position == Position(b1.clients[name].topics, topic.name) IN
               IF position = 0
               THEN Panic(b1)  \* position.unwrap() on None
               ELSE LET left == RemoveAt(b1.clients[name].topics, position)
                        b2 == IF left = <<>>
                              THEN [b1 EXCEPT !.clients = MapRemove(@, name)]
                              ELSE [b1 EXCEPT !.clients[name].topics = left]
                    IN send_response_at(b2, topic, pl, i + 1)

\* a purge event for every task that tasks.retain removes
Purges(ts, topic_name) ==
  LET gone == SelectSeq(ts, LAMBDA t : t.response_topic = topic_name)
  IN [i \in 1..Len(gone) |-> Event("purge", gone[i].id, topic_name, FALSE, FALSE)]

\* send_response without the final tasks.retain
send_response_keeping_tasks(b, topic_name, pl) ==
  IF topic_name \notin DOMAIN b.topics THEN b
  ELSE LET b1 == send_response_at(b, b.topics[topic_name], pl, 1) IN
       IF b1.panicked THEN b1
       ELSE [b1 EXCEPT
               !.topics = IF b1.topics[topic_name].workers = <<>>
                          THEN MapRemove(@, topic_name)
                          ELSE [@ EXCEPT ![topic_name].clients = <<>>]]

\* send_response that deletes the topic row whether or not it has workers
send_response_dropping_row(b, topic_name, pl) ==
  IF topic_name \notin DOMAIN b.topics THEN b
  ELSE LET b1 == send_response_at(b, b.topics[topic_name], pl, 1) IN
       IF b1.panicked THEN b1
       ELSE [b1 EXCEPT
               !.topics = MapRemove(@, topic_name),
               !.tasks = SelectSeq(@, LAMBDA t : t.response_topic # topic_name),
               !.trace = @ \o Purges(b1.tasks, topic_name)]

send_response(b, topic_name, pl) ==
  IF topic_name \notin DOMAIN b.topics THEN b
  ELSE LET b1 == send_response_at(b, b.topics[topic_name], pl, 1) IN
       IF b1.panicked THEN b1
       ELSE [b1 EXCEPT
               !.topics = IF b1.topics[topic_name].workers = <<>>
                          THEN MapRemove(@, topic_name)
                          ELSE [@ EXCEPT ![topic_name].clients = <<>>],
               !.tasks = SelectSeq(@, LAMBDA t : t.response_topic # topic_name),
               !.trace = @ \o Purges(b1.tasks, topic_name)]

\* --------------------------------------------------------- timeout sweeper
\* drop_task that unsubscribes but leaves the emptied client rows
drop_task_keeping_rows(b, task) ==
  LET unsub(client) ==
        LET position == Position(client.topics, task.response_topic) IN
        IF position = 0 THEN client
        ELSE [client EXCEPT !.topics = RemoveAt(@, position)]
  IN Log([b EXCEPT
            !.topics = MapRemove(@, task.response_topic),
            !.clients = [n \in DOMAIN b.clients |-> unsub(b.clients[n])],
            !.dropped = @ \cup {task.response_topic}],
         Event("timeout", task.id, task.response_topic, FALSE, FALSE))

\* drop_task that unsubscribes the clients but leaves the topic row
drop_task_keeping_topic(b, task) ==
  LET unsub(client) ==
        LET position == Position(client.topics, task.response_topic) IN
        IF position = 0 THEN client
        ELSE [client EXCEPT !.topics = RemoveAt(@, position)]
      swept == [n \in DOMAIN b.clients |-> unsub(b.clients[n])]
      clients_to_remove == {n \in DOMAIN swept : swept[n].topics = <<>>}
  IN Log([b EXCEPT
            !.clients = [n \in (DOMAIN swept) \ clients_to_remove |-> swept[n]],
            !.dropped = @ \cup {task.response_topic}],
         Event("timeout", task.id, task.response_topic, FALSE, FALSE))

\* the else branch of the sweeper for one expired task
drop_task(b, task) ==
  LET unsub(client) ==
        LET position == Position(client.topics, task.response_topic) IN
        IF position = 0 THEN client
        ELSE [client EXCEPT !.topics = RemoveAt(@, position)]
      swept == [n \in DOMAIN b.clients |-> unsub(b.clients[n])]
      clients_to_remove == {n \in DOMAIN swept : swept[n].topics = <<>>}
  IN Log([b EXCEPT
            !.topics = MapRemove(@, task.response_topic),
            !.clients = [n \in (DOMAIN swept) \ clients_to_remove |-> swept[n]],
            !.dropped = @ \cup {task.response_topic}],
         Event("timeout", task.id, task.response_topic, FALSE, FALSE))

RECURSIVE remove_timeout_tasks_at(_, _, _)
remove_timeout_tasks_at(b, snapshot, i) ==
  IF i > Len(snapshot) THEN b
  ELSE remove_timeout_tasks_at(
         IF snapshot[i].elapsed < timeout_as_secs
         THEN b ELSE drop_task(b, snapshot[i]),
         snapshot, i + 1)

remove_timeout_tasks(b) ==
  IF b.panicked THEN b
  ELSE [remove_timeout_tasks_at(b, b.tasks, 1) EXCEPT
          !.tasks = SelectSeq(b.tasks, LAMBDA t : t.elapsed < timeout_as_secs)]

\* -------------------------------------------------------------- event loop
\* the frames that follow the identity frame of one logical message
TopicFrames == TopicNames \cup {PING, REGISTER}
ResponseFrames == TopicNames \cup {""}
Messages ==
  {<<t>> : t \in TopicFrames}
  \cup {<<t, r, p>> : t \in TopicFrames, r \in ResponseFrames, p \in Payloads}
  \cup {<<t, "", p, x>> : t \in TopicFrames, p \in Payloads, x \in Payloads}

\* match index { 1 => topic, 2 => response_topic, 3 => payload }: a frame
\* that is absent leaves the local of main as the previous message set it
TopicOf(frames) == frames[1]
ResponseTopicOf(frames) == IF Len(frames) >= 2 THEN frames[2] ELSE response_topic
PayloadOf(frames) == IF Len(frames) >= 3 THEN frames[3] ELSE payload

\* the if / else if chain of main
Classify(topic, rt) ==
  IF topic = PING THEN "ping"
  ELSE IF topic = REGISTER THEN "register"
  ELSE IF rt = "" THEN "reply"
  ELSE "request"

Alive == Range(tasks) \cup Range(tasks_to_retry)

AliveIds(b) == {t.id : t \in Range(b.tasks) \cup Range(b.tasks_to_retry)}

FreshId == CHOOSE i \in TaskIds : /\ i \notin {t.id : t \in Alive}
                                  /\ \A j \in 1..(i - 1) : j \in {t.id : t \in Alive}

\* the PING branch with its two sends swapped
handle_ping_pong_first(b, identity) ==
  LET b1 == Emit(b, identity, PONG)
  IN IF starts_with_worker(identity) /\ identity \notin DOMAIN b.clients
     THEN Emit(b1, identity, REGISTER)
     ELSE b1

handle_ping(b, identity) ==
  LET b1 == IF starts_with_worker(identity) /\ identity \notin DOMAIN b.clients
            THEN Emit(b, identity, REGISTER)
            ELSE b
  IN Emit(b1, identity, PONG)

\* the REGISTER branch with its two calls swapped
handle_register_draining_first(b, identity, rt, down) ==
  Log(add_client(retry_tasks(b, down), TRUE, identity, rt),
      Event("register", 0, identity, FALSE, FALSE))

handle_register(b, identity, rt, down) ==
  retry_tasks(Log(add_client(b, TRUE, identity, rt),
                  Event("register", 0, identity, FALSE, FALSE)), down)

handle_reply(b, topic, pl) == send_response(b, topic, pl)

handle_request(b, identity, topic, rt, pl, down) ==
  send_task_and_retry(add_client(b, FALSE, identity, rt),
                      NewTask(FreshId, topic, rt, pl), down)

\* the else branch of `if message.get_more()`, on the values the locals
\* identity, topic, response_topic and payload hold when the last frame of
\* a message has arrived: the branch of the class, then the sweep
HandleLocals(identity, topic, rt, pl, down, checks) ==
  LET kind == Classify(topic, rt)
      b0 == [BrokerOf(clients, topics, tasks, tasks_to_retry, assigned, longest,
                      dropped) EXCEPT !.overflow_checks = checks]
      b1 == CASE kind = "ping" -> handle_ping(b0, identity)
              [] kind = "register" -> handle_register(b0, identity, rt, down)
              [] kind = "reply" -> handle_reply(b0, topic, pl)
              [] OTHER -> handle_request(b0, identity, topic, rt, pl, down)
  IN remove_timeout_tasks(b1)

\* one iteration of the loop of main on a message of at most 4 frames
Handle(identity, frames, down, checks) ==
  HandleLocals(identity, TopicOf(frames), ResponseTopicOf(frames),
               PayloadOf(frames), down, checks)

\* the class and the topic frame of the message an iteration handled (its
\* other frames are the locals response_topic and payload), and the
\* identity frame of a ping
MsgOf(kind, frames, identity) ==
  [kind |-> kind, topic |-> TopicOf(frames),
   from |-> IF kind = "ping" THEN identity ELSE ""]

NoMsg == [kind |-> "none", topic |-> "", from |-> ""]

\* the state the iteration leaves; an abort ends the process, and its
\* tables with it
Commit(b, kind, frames, identity) ==
  /\ msg' = MsgOf(kind, frames, identity)
  /\ response_topic' = ResponseTopicOf(frames)
  /\ payload' = PayloadOf(frames)
  /\ out' = b.out
  /\ trace' = b.trace
  /\ panicked' = b.panicked
  /\ IF b.panicked
     THEN /\ clients' = <<>>
          /\ topics' = <<>>
          /\ tasks' = <<>>
          /\ tasks_to_retry' = <<>>
          /\ assigned' = [i \in TaskIds |-> <<>>]
          /\ longest' = [t \in TopicNames |-> 0]
          /\ dropped' = {}
     ELSE /\ clients' = b.clients
          /\ topics' = b.topics
          /\ tasks' = b.tasks
          /\ tasks_to_retry' = b.tasks_to_retry
          /\ assigned' = [i \in TaskIds |->
                            IF i \in AliveIds(b) THEN b.assigned[i] ELSE <<>>]
          /\ longest' = [t \in TopicNames |->
                           IF t \in DOMAIN b.topics THEN b.longest[t] ELSE 0]
          /\ dropped' = b.dropped

\* the identities a dispatch can select: only a send to one of them can
\* make a difference by failing
Workers == UNION {Range(topics[t].workers) : t \in DOMAIN topics}

SubsOf(identity) ==
  IF identity \in DOMAIN clients THEN Len(clients[identity].topics) ELSE 0

\* the overflow checks of the build, on or off: the profile shows only
\* where retry += 1 overflows, which takes a task whose counter is near
\* u8::MAX
Profiles ==
  IF \E t \in Alive : t.retry >= 128 THEN BOOLEAN ELSE {FALSE}

RetryBounded(b) ==
  \A t \in Range(b.tasks) \cup Range(b.tasks_to_retry) : t.retry <= MaxRetry

Init ==
  /\ clients = <<>>
  /\ topics = <<>>
  /\ tasks = <<>>
  /\ tasks_to_retry = <<>>
  /\ response_topic = ""
  /\ payload = ""
  /\ panicked = FALSE
  /\ msg = NoMsg
  /\ out = <<>>
  /\ trace = <<>>
  /\ assigned = [i \in TaskIds |-> <<>>]
  /\ longest = [t \in TopicNames |-> 0]
  /\ dropped = {}
  /\ rr = [from |-> 0, picks |-> <<>>]

\* a worker's liveness probe: the single frame @@PING
Ping ==
  /\ ~panicked
  /\ \E identity \in PingSenders, frames \in Messages :
       /\ Len(frames) = 1
       /\ Classify(TopicOf(frames), ResponseTopicOf(frames)) = "ping"
       /\ Commit(Handle(identity, frames, {}, FALSE), "ping", frames, identity)
  /\ UNCHANGED rr

Register ==
  /\ ~panicked
  /\ \E identity \in Registrants, frames \in Messages, down \in SUBSET Workers,
        checks \in Profiles :
       /\ Len(frames) <= 3
       /\ Classify(TopicOf(frames), ResponseTopicOf(frames)) = "register"
       /\ ResponseTopicOf(frames) \in RegisterTopics(identity)
       /\ SubsOf(identity) < MaxSubs
       /\ LET b == Handle(identity, frames, down, checks)
          IN RetryBounded(b) /\ Commit(b, "register", frames, identity)
  /\ UNCHANGED rr

\* the responder does not read the identity frame: one sender stands for all
WorkerReply ==
  /\ ~panicked
  /\ \E identity \in {"worker1"}, frames \in Messages :
       /\ Len(frames) <= 3
       /\ Classify(TopicOf(frames), ResponseTopicOf(frames)) = "reply"
       /\ Commit(Handle(identity, frames, {}, FALSE), "reply", frames, identity)
  /\ UNCHANGED rr

ClientRequest ==
  /\ ~panicked
  /\ Len(tasks) + Len(tasks_to_retry) < MaxTasks
  /\ \E identity \in Requesters, frames \in Messages, down \in SUBSET Workers,
        checks \in Profiles :
       /\ Len(frames) <= 3
       /\ Classify(TopicOf(frames), ResponseTopicOf(frames)) = "request"
       /\ TopicOf(frames) \in RequestTopics
       /\ ResponseTopicOf(frames) \in ResponseTopics
       /\ SubsOf(identity) < MaxSubs
       /\ LET b == Handle(identity, frames, down, checks)
          IN RetryBounded(b) /\ Commit(b, "request", frames, identity)
  /\ UNCHANGED rr

\* a fifth frame: match index { _ => panic! }
FramingAbort ==
  /\ ~panicked
  /\ \E frames \in Messages :
       /\ Len(frames) > 3
       /\ Commit(Panic(BrokerOf(clients, topics, tasks, tasks_to_retry, assigned, longest, dropped)),
                 "abort", frames, "")
  /\ UNCHANGED rr

\* a second passes: date.elapsed() of every in-flight task grows (the date
\* of a parked task is stamped again by send_task before anything reads it)
Tick ==
  /\ ~panicked
  /\ tasks # <<>>
  /\ LET age(t) == [t EXCEPT !.elapsed = IF @ < timeout_as_secs THEN @ + 1 ELSE @]
     IN tasks' = [i \in 1..Len(tasks) |-> age(tasks[i])]
  /\ msg' = [kind |-> "tick", topic |-> "", from |-> ""]
  /\ out' = <<>>
  /\ trace' = <<>>
  /\ UNCHANGED <<clients, topics, tasks_to_retry, response_topic, payload,
                 panicked, assigned, longest, dropped, rr>>

Next == Ping \/ Register \/ WorkerReply \/ ClientRequest \/ FramingAbort \/ Tick

Spec == Init /\ [][Next]_vars

\* ---------------------------------------------- round-robin, stable members
\* A run of dispatches on T while the worker list of T does not change and
\* every send succeeds.  It starts from a registry in which 1..MaxWorkersRR
\* distinct workers are registered on T, in any order, and the cursor of T
\* has any of the values it can be left with (0 on a fresh topic, up to the
\* longest length the list has had, since evictions shorten the list
\* without touching the cursor).
AllWorkers == <<"worker1", "worker2", "worker3", "worker4", "worker5">>
WorkersRR == {AllWorkers[i] : i \in 1..MaxWorkersRR}
WorkerListsRR ==
  {ws \in UNION {[1..n -> WorkersRR] : n \in 1..MaxWorkersRR} :
     \A i, j \in 1..Len(ws) : ws[i] = ws[j] => i = j}

InitRR ==
  /\ \E ws \in WorkerListsRR, c \in 0..MaxWorkersRR :
       /\ topics = [t \in {"T"} |->
                     [name |-> "T", workers |-> ws, next_worker_index |-> c,
                      clients |-> <<>>]]
       /\ clients = [w \in Range(ws) |->
                      [name |-> w, is_worker |-> TRUE, topics |-> <<"T">>]]
       /\ rr = [from |-> c, picks |-> <<>>]
  /\ tasks = <<>>
  /\ tasks_to_retry = <<>>
  /\ response_topic = ""
  /\ payload = ""
  /\ panicked = FALSE
  /\ msg = NoMsg
  /\ out = <<>>
  /\ trace = <<>>
  /\ assigned = [i \in TaskIds |-> <<>>]
  /\ longest = [t \in TopicNames |-> IF t = "T" THEN MaxWorkersRR ELSE 0]
  /\ dropped = {}

\* c1 submits on T with response-topic R; the send succeeds
RequestRR ==
  /\ Len(rr.picks) < MaxPicks
  /\ Len(tasks) + Len(tasks_to_retry) < MaxTasks
  /\ SubsOf("c1") < MaxSubs
  /\ LET frames == <<"T", "R", "P">>
         b == Handle("c1", frames, {}, FALSE)
     IN /\ Commit(b, "request", frames, "c1")
        /\ rr' = [rr EXCEPT !.picks = Append(@, b.trace[2].name)]

\* a worker replies on R: the tasks in flight are concluded
ReplyRR ==
  /\ tasks # <<>>
  /\ LET frames == <<"R", "", "P">>
     IN Commit(Handle("worker1", frames, {}, FALSE), "reply", frames, "worker1")
  /\ UNCHANGED rr

NextRR == RequestRR \/ ReplyRR

SpecRR == InitRR /\ [][NextRR]_vars

\* ------------------------------------------------- the retry counter, u8
\* One request of c1 on T at a time, re-attempted until the counter of its
\* task runs through the range of u8: worker2 registers on T again and
\* again, reachable or not (a failed send evicts it and parks the task
\* again), worker1 registers on R, which serves no task.
RequestU8 ==
  /\ ~panicked
  /\ Alive = {}
  /\ "c1" \notin DOMAIN clients
  /\ \E down \in SUBSET Workers, checks \in Profiles :
       LET frames == <<"T", "R", "P">>
       IN Commit(Handle("c1", frames, down, checks), "request", frames, "c1")
  /\ UNCHANGED rr

RegisterU8 ==
  /\ ~panicked
  /\ "worker2" \notin DOMAIN clients
  /\ \E down \in SUBSET {"worker2"}, checks \in Profiles :
       LET frames == <<REGISTER, "T", "P">>
       IN Commit(Handle("worker2", frames, down, checks), "register", frames,
                 "worker2")
  /\ UNCHANGED rr

RegisterElsewhereU8 ==
  /\ ~panicked
  /\ SubsOf("worker1") < MaxSubs
  /\ \E checks \in Profiles :
       LET frames == <<REGISTER, "R", "P">>
       IN Commit(Handle("worker1", frames, {}, checks), "register", frames,
                 "worker1")
  /\ UNCHANGED rr

ReplyU8 ==
  /\ ~panicked
  /\ tasks # <<>>
  /\ LET frames == <<"R", "", "P">>
     IN Commit(Handle("worker2", frames, {}, FALSE), "reply", frames, "worker2")
  /\ UNCHANGED rr

NextU8 == RequestU8 \/ RegisterU8 \/ RegisterElsewhereU8 \/ ReplyU8

SpecU8 == Init /\ [][NextU8]_vars

\* ------------------------------------------------------------------ claims
Subscribed(c, t) == c \in DOMAIN clients /\ t \in Range(clients[c].topics)

\* the events of one kind in the trace of the last iteration
Events(tr, ev) == {i \in 1..Len(tr) : tr[i].ev = ev}

\* every subscription of a client row is mirrored by the topic row
ClientSideMirrored ==
  \A c \in DOMAIN clients : \A t \in Range(clients[c].topics) :
    /\ t \in DOMAIN topics
    /\ c \in Range(topics[t].clients) \cup Range(topics[t].workers)

\* every entry of a topic row is mirrored by the client row
TopicSideMirrored ==
  \A t \in DOMAIN topics :
    \A c \in Range(topics[t].clients) \cup Range(topics[t].workers) :
      Subscribed(c, t)

\* C8: between loop iterations every topic of a client's subscription list
\* is a topic row that lists the identity back, and every identity of a
\* topic's client or worker list is a client row subscribed to that topic.
C8_SubscriptionSymmetry == ClientSideMirrored /\ TopicSideMirrored

\* C9: between loop iterations no topic row has both an empty worker list
\* and an empty client list.
C9_NoEmptyTopic ==
  \A t \in DOMAIN topics : topics[t].workers # <<>> \/ topics[t].clients # <<>>

\* C10: between loop iterations no client row has an empty subscription
\* list.
C10_NoEmptyClient == \A c \in DOMAIN clients : clients[c].topics # <<>>

\* C10 witness: the sweeper has dropped a task whose response-topic was the
\* only subscription of c1, worker rows remain, and the row of c1 is gone.
C10_Witness ==
  /\ Events(trace, "timeout") # {}
  /\ clients # <<>>
  /\ "c1" \notin DOMAIN clients
  /\ \A c \in DOMAIN clients : ~Subscribed(c, "R")
  /\ \E i \in Events(trace, "timeout") : trace[i].name = "R"

\* the datagrams of o addressed to c that carry pl
Sent(o, c, pl) == Cardinality({i \in 1..Len(o) : o[i].to = c /\ o[i].body = pl})

\* the occurrences of topic t in the subscription list of c, in table cl
Subscriptions(cl, c, t) == IF c \in DOMAIN cl THEN Count(cl[c].topics, t) ELSE 0

TaskIdsOf(ts) == {ts[i].id : i \in 1..Len(ts)}

\* the step is an iteration that ran the responder on an existing topic row
ReplyOnTopicRow ==
  msg'.kind = "reply" /\ ~panicked' /\ msg'.topic \in DOMAIN topics

\* C1 as claimed: on a reply on R every client of R's client list is sent
\* the payload exactly once, also when it submitted several requests with
\* response-topic R, and afterwards does not list R.
C1_FanOutExactlyOnce ==
  [][ReplyOnTopicRow =>
       \A c \in Range(topics[msg'.topic].clients) :
         /\ Sent(out', c, payload') = 1
         /\ Subscriptions(clients', c, msg'.topic) = 0]_vars

\* C1 as amended: on a reply on R every identity is sent the payload once
\* per entry it has in R's client list, nothing else is sent, afterwards no
\* identity is in R's client list and each has lost as many occurrences of
\* R from its subscription list as it was sent datagrams.
C1_FanOutPerEntry ==
  [][ReplyOnTopicRow =>
       /\ Len(out') = Len(topics[msg'.topic].clients)
       /\ \A c \in Identities :
            LET n == Count(topics[msg'.topic].clients, c) IN
            /\ Sent(out', c, payload') = n
            /\ Subscriptions(clients', c, msg'.topic)
                 = Subscriptions(clients, c, msg'.topic) - n
            /\ msg'.topic \in DOMAIN topics'
                 => c \notin Range(topics'[msg'.topic].clients)]_vars

\* C1 witness: a reply on R has been fanned out and c1, which had submitted
\* two requests with response-topic R, was sent the payload twice.
C1_Witness ==
  /\ msg.kind = "reply" /\ msg.topic = "R" /\ ~panicked
  /\ Len(out) = 2
  /\ Sent(out, "c1", payload) = 2
  /\ "c1" \notin DOMAIN clients

\* C6 as claimed: after the sweeper drops an in-flight task with
\* response-topic R the task is not in the in-flight table, no topic row R
\* exists, no client lists R, no client row is empty, and the in-flight
\* tasks younger than the timeout are all kept.
C6_TimeoutCascade ==
  [][~panicked' =>
       /\ \A i \in Events(trace', "timeout") :
            /\ trace'[i].id \notin TaskIdsOf(tasks')
            /\ trace'[i].name \notin DOMAIN topics'
            /\ \A c \in DOMAIN clients' :
                 trace'[i].name \notin Range(clients'[c].topics)
       /\ \A c \in DOMAIN clients' : clients'[c].topics # <<>>
       /\ \A i \in 1..Len(tasks) :
            (/\ tasks[i].elapsed < timeout_as_secs
             /\ ~(ReplyOnTopicRow /\ tasks[i].response_topic = msg'.topic))
            => tasks[i].id \in TaskIdsOf(tasks')]_vars

\* the happy path before the reply: one worker w on T, c1 waiting on R for
\* the one task, which is in flight to w
HappyPathPending(w) ==
  /\ DOMAIN clients = {w, "c1"}
  /\ clients[w].topics = <<"T">> /\ clients["c1"].topics = <<"R">>
  /\ DOMAIN topics = {"T", "R"}
  /\ topics["T"].workers = <<w>> /\ topics["T"].clients = <<>>
  /\ topics["R"].workers = <<>> /\ topics["R"].clients = <<"c1">>
  /\ Len(tasks) = 1 /\ tasks_to_retry = <<>>
  /\ tasks[1].worker_topic = "T" /\ tasks[1].response_topic = "R"
  /\ tasks[1].worker_name = Some(w)

\* C7: after the responder handles a reply on R whose topic row exists, no
\* in-flight task has response-topic R, the client list of R is empty and
\* the row R is gone if it had no workers; in the happy path the reply
\* leaves an empty in-flight table, no topic R and no client c1.
C7_BroadcastCompletion ==
  [][ReplyOnTopicRow =>
       /\ \A i \in 1..Len(tasks') : tasks'[i].response_topic # msg'.topic
       /\ msg'.topic \in DOMAIN topics'
            => /\ topics'[msg'.topic].clients = <<>>
               /\ topics'[msg'.topic].workers # <<>>
       /\ topics[msg'.topic].workers = <<>> => msg'.topic \notin DOMAIN topics'
       /\ \A w \in Identities :
            (HappyPathPending(w) /\ msg'.topic = "R")
            => /\ tasks' = <<>>
               /\ "R" \notin DOMAIN topics'
               /\ "c1" \notin DOMAIN clients'
               /\ out' = <<Datagram("c1", payload')>>]_vars

\* C7 witness: the end of the happy path, worker2 still on T.
C7_Witness ==
  /\ msg.kind = "reply" /\ msg.topic = "R" /\ ~panicked
  /\ out = <<Datagram("c1", "P")>>
  /\ tasks = <<>> /\ tasks_to_retry = <<>>
  /\ DOMAIN topics = {"T"} /\ topics["T"].workers = <<"worker2">>
  /\ DOMAIN clients = {"worker2"}

\* the select events of task id in trace tr
Selects(tr, id) == {i \in Events(tr, "select") : tr[i].id = id}

TaskOf(ts, id) == ts[CHOOSE i \in 1..Len(ts) : ts[i].id = id]

NoWorkerOn(tp, t) == t \notin DOMAIN tp \/ tp[t].workers = <<>>

RegisteredNowhere(cl, tp, w) ==
  w \notin DOMAIN cl /\ \A t \in DOMAIN tp : w \notin Range(tp[t].workers)

\* C2: every call of send_task_and_retry that returns has made no more send
\* attempts than there were client rows, and has left the task either in
\* the in-flight table, assigned to the worker of its last and successful
\* send, or in the retry queue with no worker left on its worker-topic,
\* never both; every worker a send failed for is registered nowhere.
C2_DispatchTerminates ==
  [][~panicked' =>
       /\ \A d \in Events(trace', "dispatch") :
            LET id == trace'[d].id
                S == Selects(trace', id)
                flying == id \in TaskIdsOf(tasks')
                parked == id \in TaskIdsOf(tasks_to_retry')
            IN /\ Cardinality(S) <= Cardinality(DOMAIN clients) + 1
               /\ flying # parked
               /\ flying =>
                    /\ S # {}
                    /\ \A i \in S : trace'[i].ok <=> (\A j \in S : j <= i)
                    /\ \E i \in S :
                         /\ trace'[i].ok
                         /\ TaskOf(tasks', id).worker_name = Some(trace'[i].name)
                    /\ TaskOf(tasks', id).sent
               /\ parked =>
                    /\ \A i \in S : ~trace'[i].ok
                    /\ NoWorkerOn(topics', TaskOf(tasks_to_retry', id).worker_topic)
       /\ \A i \in Events(trace', "select") :
            ~trace'[i].ok => RegisteredNowhere(clients', topics', trace'[i].name)]_vars

\* C2 witness: worker1 and worker2 served T, the send to worker1 failed and
\* the task is in flight to worker2, worker1 being registered nowhere.
C2_Witness ==
  /\ msg.kind = "request" /\ ~panicked
  /\ Len(trace) = 3
  /\ trace[2] = Event("select", trace[1].id, "worker1", TRUE, FALSE)
  /\ trace[3] = Event("select", trace[1].id, "worker2", TRUE, TRUE)
  /\ trace[1].id \in TaskIdsOf(tasks)
  /\ TaskOf(tasks, trace[1].id).worker_name = Some("worker2")
  /\ RegisteredNowhere(clients, topics, "worker1")
  /\ "c1" \in DOMAIN clients

\* C3: a task is successfully sent to at most one worker in its lifetime,
\* every worker selected was in the worker list of the task's worker-topic
\* when it was selected, and no task is twice in the in-flight table and
\* the retry queue taken together.
C3_OneWorkerPerTask ==
  /\ \A id \in TaskIds : Len(assigned[id]) <= 1
  /\ \A i \in Events(trace, "select") : trace[i].listed
  /\ Cardinality(TaskIdsOf(tasks) \cup TaskIdsOf(tasks_to_retry))
       = Len(tasks) + Len(tasks_to_retry)
  /\ \A i \in 1..Len(tasks) : assigned[tasks[i].id] = tasks[i].worker_name
  /\ \A i \in 1..Len(tasks_to_retry) : assigned[tasks_to_retry[i].id] = <<>>

\* C3 witness: the first worker selected for a request was unreachable and
\* the second took the task, while an earlier task is still in flight.
C3_Witness ==
  /\ msg.kind = "request" /\ ~panicked
  /\ Len(tasks) = 2
  /\ \E id \in TaskIds :
       /\ \E i, j \in Selects(trace, id) : ~trace[i].ok /\ trace[j].ok
       /\ id \in TaskIdsOf(tasks)
       /\ assigned[id] = Some("worker2")
       /\ TaskOf(tasks, id).retry = 2

\* the ids of the tasks the iteration passed to the dispatcher, in order
Dispatched(tr) ==
  LET ds == SelectSeq(tr, LAMBDA e : e.ev = "dispatch")
  IN [i \in 1..Len(ds) |-> ds[i].id]

\* C4: handling a @@REGISTER adds the sender as a worker and then passes
\* every task of the retry queue through the dispatcher exactly once; a task
\* parked because T had no worker is in flight to the sender when the sender
\* registers on T and the send succeeds; the tasks that find no worker are
\* the retry queue afterwards.
C4_RetryDrain ==
  [][(msg'.kind = "register" /\ ~panicked') =>
       /\ trace'[1].ev = "register"
       /\ Dispatched(trace') = [i \in 1..Len(tasks_to_retry) |-> tasks_to_retry[i].id]
       /\ TaskIdsOf(tasks_to_retry') \subseteq TaskIdsOf(tasks_to_retry)
       /\ \A i \in 1..Len(tasks_to_retry) :
            LET t == tasks_to_retry[i]
                S == Selects(trace', t.id)
            IN /\ (t.id \in TaskIdsOf(tasks')) # (t.id \in TaskIdsOf(tasks_to_retry'))
               /\ t.id \in TaskIdsOf(tasks_to_retry') <=> \A j \in S : ~trace'[j].ok
               /\ (/\ t.worker_topic = response_topic'
                   /\ NoWorkerOn(topics, t.worker_topic)
                   /\ trace'[1].name \notin DOMAIN clients
                   /\ \E j \in S : trace'[j].ok)
                  => /\ t.id \in TaskIdsOf(tasks')
                     /\ TaskOf(tasks', t.id).worker_name = Some(trace'[1].name)]_vars

\* C4 witness: the task parked for want of a worker on T is in flight to
\* worker1, which has just registered on T; the retry queue is empty.
C4_Witness ==
  /\ msg.kind = "register" /\ ~panicked /\ response_topic = "T"
  /\ Len(trace) = 3
  /\ trace[1] = Event("register", 0, "worker1", FALSE, FALSE)
  /\ trace[2].ev = "dispatch"
  /\ trace[3] = Event("select", trace[2].id, "worker1", TRUE, TRUE)
  /\ tasks_to_retry = <<>>
  /\ Len(tasks) = 1 /\ tasks[1].worker_name = Some("worker1") /\ tasks[1].retry = 2

\* C5: while the worker list of T holds N distinct workers and does not
\* change and every send succeeds, any K >= N consecutive dispatches on T,
\* from any cursor value, select each worker at least K \div N times; from
\* a fresh topic with workers registered in the order worker1, worker2,
\* worker3, four dispatches go to worker1, worker2, worker3, worker1.
C5_RoundRobinFair ==
  LET W == topics["T"].workers
      N == Len(W)
      P == rr.picks
  IN /\ \A i \in 1..Len(P) : \A j \in i..Len(P) :
          (j - i + 1 >= N) =>
            \A w \in Range(W) :
              Count(SubSeq(P, i, j), w) >= (j - i + 1) \div N
     /\ (/\ rr.from = 0
         /\ W = <<"worker1", "worker2", "worker3">>
         /\ Len(P) >= 4)
        => SubSeq(P, 1, 4) = <<"worker1", "worker2", "worker3", "worker1">>

\* C5 witness: four dispatches on the fresh topic of worker1, worker2,
\* worker3 have been made.
C5_Witness ==
  /\ rr.from = 0
  /\ topics["T"].workers = <<"worker1", "worker2", "worker3">>
  /\ Len(rr.picks) = 4
  /\ topics["T"].next_worker_index = 1

\* C11: between loop iterations every task of the in-flight table has
\* sent = true and an assigned worker, and every task of the retry queue has
\* no assigned worker, also when it was first tried on workers that were
\* then evicted and when it was parked again by a drain.
C11_TaskTables ==
  /\ \A i \in 1..Len(tasks) : tasks[i].sent /\ tasks[i].worker_name # None
  /\ \A i \in 1..Len(tasks_to_retry) : tasks_to_retry[i].worker_name = None

\* C11 witness: a task is parked after its one send attempt failed and the
\* worker was evicted, while another task is in flight.
C11_Witness ==
  /\ ~panicked /\ msg.kind = "request"
  /\ Len(tasks) = 1 /\ Len(tasks_to_retry) = 1
  /\ tasks_to_retry[1].retry = 2 /\ ~tasks_to_retry[1].sent
  /\ \E i \in Selects(trace, tasks_to_retry[1].id) : ~trace[i].ok

\* C12 as claimed: between loop iterations the cursor c of every topic row
\* satisfies 0 <= c <= len(worker list), also after workers of the topic
\* have been evicted.
C12_CursorInRange ==
  \A t \in DOMAIN topics :
    /\ 0 <= topics[t].next_worker_index
    /\ topics[t].next_worker_index <= Len(topics[t].workers)

\* C12 as amended: between loop iterations the cursor c of every topic row
\* satisfies 0 <= c <= max(1, the longest worker list the row has had).
C12_CursorBounded ==
  \A t \in DOMAIN topics :
    /\ 0 <= topics[t].next_worker_index
    /\ topics[t].next_worker_index <= Max(1, longest[t])

\* C12 witness: the only worker of T has been evicted by a failed send and
\* the cursor of T, 1, is past the end of its empty worker list.
C12_Witness ==
  /\ ~panicked /\ msg.kind = "request"
  /\ "T" \in DOMAIN topics
  /\ topics["T"].workers = <<>> /\ topics["T"].next_worker_index = 1
  /\ \E i \in Events(trace, "select") : ~trace[i].ok

\* the tables the sweep alone would leave from the present state
SweepOnly ==
  remove_timeout_tasks(
    BrokerOf(clients, topics, tasks, tasks_to_retry, assigned, longest, dropped))

C14_ReplyWithoutSubscribers ==
  [][(/\ msg'.kind = "reply" /\ ~panicked'
      /\ \/ msg'.topic \notin DOMAIN topics
         \/ /\ topics[msg'.topic].clients = <<>>
            /\ topics[msg'.topic].workers # <<>>) =>
       /\ out' = <<>>
       /\ clients' = SweepOnly.clients /\ topics' = SweepOnly.topics
       /\ tasks' = SweepOnly.tasks /\ tasks_to_retry' = SweepOnly.tasks_to_retry]_vars

\* the tables a reply on topic t without subscribed clients leaves: the
\* in-flight tasks with response-topic t are purged and a row t with no
\* worker is removed, when the row exists; then the sweep runs
AfterBareReply(t) ==
  LET b == BrokerOf(clients, topics, tasks, tasks_to_retry, assigned, longest,
                    dropped)
  IN remove_timeout_tasks(
       IF t \notin DOMAIN topics THEN b
       ELSE [b EXCEPT
               !.tasks = SelectSeq(@, LAMBDA x : x.response_topic # t),
               !.topics = IF topics[t].workers = <<>>
                          THEN MapRemove(@, t) ELSE @])

\* C14 as amended: a reply on a topic without subscribed clients sends
\* nothing and leaves the client table and the retry queue unchanged; when
\* the topic row is absent the topic table and the in-flight table are
\* unchanged too; when the row exists, the in-flight tasks whose
\* response-topic is that topic are purged, and the row is kept if it has
\* workers and removed if it has none (all up to the sweep that ends the
\* iteration).
C14_BareReplyPurges ==
  [][(/\ msg'.kind = "reply" /\ ~panicked'
      /\ \/ msg'.topic \notin DOMAIN topics
         \/ topics[msg'.topic].clients = <<>>) =>
       LET t == msg'.topic
           after == AfterBareReply(t)
           fresh == \A i \in 1..Len(tasks) : tasks[i].elapsed < timeout_as_secs
       IN /\ out' = <<>>
          /\ tasks_to_retry' = tasks_to_retry
          /\ clients' = after.clients /\ topics' = after.topics
          /\ tasks' = after.tasks
          /\ fresh => clients' = clients
          /\ (fresh /\ t \notin DOMAIN topics) => (topics' = topics /\ tasks' = tasks)
          /\ (fresh /\ t \in DOMAIN topics) =>
               /\ tasks' = SelectSeq(tasks, LAMBDA x : x.response_topic # t)
               /\ topics[t].workers # <<>> => topics' = topics
               /\ topics[t].workers = <<>> => topics' = MapRemove(topics, t)]_vars

\* C14 witness: a reply on R, whose row lists worker1 as a worker and no
\* client, has purged an in-flight task with response-topic R and sent
\* nothing; the row R is still there.
C14_Witness ==
  /\ msg.kind = "reply" /\ msg.topic = "R" /\ ~panicked
  /\ out = <<>>
  /\ Events(trace, "purge") # {}
  /\ "R" \in DOMAIN topics
  /\ topics["R"].workers = <<"worker1">> /\ topics["R"].clients = <<>>

\* C15 as claimed: the iteration that handles a @@PING leaves the client
\* table, topic table, in-flight table and retry queue as they were; the
\* sweep is not run, so that an expired in-flight task is still in the
\* in-flight table after the ping.
C15_PingChangesNothing ==
  [][msg'.kind = "ping" =>
       /\ ~panicked'
       /\ clients' = clients /\ topics' = topics
       /\ tasks' = tasks /\ tasks_to_retry' = tasks_to_retry]_vars

\* C16: on a @@PING from an identity that starts with "worker" and has no
\* row in the client table the broker emits to it a datagram @@REGISTER and
\* then a datagram @@PONG; on a @@PING from any other identity it emits
\* exactly one datagram, @@PONG, to that identity.
C16_PingReconnection ==
  [][msg'.kind = "ping" =>
       /\ ~panicked'
       /\ IF starts_with_worker(msg'.from) /\ msg'.from \notin DOMAIN clients
          THEN out' = <<Datagram(msg'.from, REGISTER), Datagram(msg'.from, PONG)>>
          ELSE out' = <<Datagram(msg'.from, PONG)>>]_vars

\* C16 witness: worker1, unknown to a broker that knows worker2, has pinged
\* and was sent @@REGISTER, then @@PONG.
C16_Witness ==
  /\ msg.kind = "ping" /\ msg.from = "worker1" /\ ~panicked
  /\ DOMAIN clients = {"worker2"}
  /\ out = <<Datagram("worker1", REGISTER), Datagram("worker1", PONG)>>

\* C17 as claimed: the broker aborts on a message of more than 4 frames and
\* on no other input: no iteration on a message of at most 4 frames ends in
\* an abort, whatever the identities, registrations, send failures and
\* timeouts before it.
C17_AbortOnlyOnFraming ==
  [][panicked' => msg'.kind = "abort"]_vars

\* the task with this id, in flight or parked, in the two tables
Located(ts, tr, id) ==
  IF id \in TaskIdsOf(ts) THEN TaskOf(ts, id) ELSE TaskOf(tr, id)

\* C18 as claimed: every call of send_task adds one to the retry counter of
\* the task (modulo 2^8), also in a drain of the retry queue, and the
\* counter never stops or aborts a dispatch: no iteration that dispatches
\* ends in an abort, also on the 256th attempt of a task.
C18_RetryNeverAborts ==
  [][msg'.kind \in {"register", "request"} =>
       /\ ~panicked'
       /\ \A d \in Events(trace', "dispatch") :
            LET id == trace'[d].id
                before == IF id \in TaskIdsOf(tasks_to_retry)
                          THEN TaskOf(tasks_to_retry, id).retry ELSE 0
                calls == Cardinality(Selects(trace', id))
                           + (IF id \in TaskIdsOf(tasks_to_retry') THEN 1 ELSE 0)
            IN Located(tasks', tasks_to_retry', id).retry
                 = (before + calls) % 256]_vars

\* the messages of fewer than 4 frames (the identity frame included)
ShortMessages == {f \in Messages : Len(f) < 3}

\* the frame of a message at index i, empty when the message is shorter
FrameOrEmpty(f, i) == IF Len(f) >= i THEN f[i] ELSE ""

\* whether the broker has room, within the bounds, to take a message
Admissible(identity, topic, rt) ==
  /\ Classify(topic, rt) \in {"register", "request"} => SubsOf(identity) < MaxSubs
  /\ Classify(topic, rt) = "request" => Len(tasks) + Len(tasks_to_retry) < MaxTasks
  /\ rt \in TopicNames \cup {""}

\* C19 as claimed: in every state the broker classifies and handles a
\* message as a broker with the same tables that has received nothing
\* before does: a message of fewer than 4 frames is classified and handled
\* with its missing response-topic and payload frames empty, whatever the
\* frames of the messages before it were.
C19_HandlingIgnoresHistory ==
  ~panicked =>
    \A identity \in Identities, f \in ShortMessages :
      LET rt == ResponseTopicOf(f)
          pl == PayloadOf(f)
          rt0 == FrameOrEmpty(f, 2)
          pl0 == FrameOrEmpty(f, 3)
      IN /\ Classify(TopicOf(f), rt) = Classify(TopicOf(f), rt0)
         /\ (Admissible(identity, TopicOf(f), rt)
              /\ Admissible(identity, TopicOf(f), rt0)) =>
              \A down \in SUBSET Workers :
                LET a == HandleLocals(identity, TopicOf(f), rt, pl, down, FALSE)
                    e == HandleLocals(identity, TopicOf(f), rt0, pl0, down, FALSE)
                IN /\ a.out = e.out /\ a.panicked = e.panicked
                   /\ a.panicked \/
                        (/\ a.clients = e.clients /\ a.topics = e.topics
                         /\ a.tasks = e.tasks
                         /\ a.tasks_to_retry = e.tasks_to_retry)

\* the iterations whose branch leaves the registry alone, so that what they
\* change is what the sweep changes: a ping, a reply on an absent topic
SweepAlone ==
  /\ ~panicked'
  /\ \/ msg'.kind = "ping"
     \/ msg'.kind = "reply" /\ msg'.topic \notin DOMAIN topics

\* a client row flagged as worker all of whose subscriptions are worker
\* registrations
WorkerOnly(c) ==
  /\ clients[c].is_worker
  /\ \A t \in Range(clients[c].topics) :
       t \in DOMAIN topics => c \notin Range(topics[t].clients)

\* C20 as claimed: a sweep deregisters no worker: every topic row with
\* workers is there after the sweep with the same worker list, and every
\* client row flagged as worker (with worker registrations only) is there
\* with the same subscriptions, also when a dropped task has the
\* response-topic name of a topic that workers are registered on.
C20_SweepKeepsWorkers ==
  [][SweepAlone =>
       /\ \A t \in DOMAIN topics :
            topics[t].workers # <<>> =>
              t \in DOMAIN topics' /\ topics'[t].workers = topics[t].workers
       /\ \A c \in DOMAIN clients :
            WorkerOnly(c) => c \in DOMAIN clients' /\ clients'[c] = clients[c]]_vars

====
